---------------------------- MODULE Spec2Model ----------------------------
(***************************************************************************)
(* State-machine model of the Educational AI Agent: the chat front ends    *)
(* and the orchestration engine behind them.                               *)
(*                                                                         *)
(*   app = "jsx"  the standalone component EducationalAIAgent              *)
(*                (src/frontend/src/app.jsx): the reply and the profile    *)
(*                update are computed in the browser.                      *)
(*   app = "tsx"  the component App (src/unnamed/part_002, App.tsx): the   *)
(*                reply comes from POST /api/message, the profile from     *)
(*                the backend.  The backend is not part of the sources;    *)
(*                its turn processing is modelled from the specification   *)
(*                (definitions prefixed "backend").                        *)
(*   app = "engine"  the orchestration engine on its own, with its         *)
(*                session store, profile store, tools and learning graph,  *)
(*                driven by the messages of one learner.  None of it is    *)
(*                part of the sources: it is modelled from the             *)
(*                specification and the architecture document.             *)
(*                                                                         *)
(* One React event handler, or one continuation of an async function       *)
(* after an await, runs to completion and its state updates are applied    *)
(* as one batch: each is one action.                                       *)
(***************************************************************************)
EXTENDS Integers, Sequences, FiniteSets, TLC

(***************************************************************************)
(* Bounds of the model.                                                    *)
(***************************************************************************)
MaxTurns == 2          \* accepted learner messages per behaviour
MaxPush == 1           \* WebSocket progress events in flight
MaxOverrides == 1      \* teacher overrides per behaviour
MaxChat == 26          \* accepted messages of a conversation that repeats one plain message
MaxEngineTurns == 2    \* messages received by the orchestration engine per behaviour
MaxDays == 2           \* calendar days a behaviour of the engine spans

(***************************************************************************)
(* Strings.  JavaScript's toLowerCase, trim and includes, computed on the  *)
(* characters of the string.                                               *)
(***************************************************************************)
UpperLetters == "ABCDEFGHIJKLMNOPQRSTUVWXYZ"
LowerLetters == "abcdefghijklmnopqrstuvwxyz"

CharAt(s, i) == SubSeq(s, i, i)

toLowerCaseChar(c) ==
  IF \E i \in 1..Len(UpperLetters) : CharAt(UpperLetters, i) = c
    THEN CharAt(LowerLetters, CHOOSE i \in 1..Len(UpperLetters) : CharAt(UpperLetters, i) = c)
    ELSE c

RECURSIVE toLowerCase(_)
toLowerCase(s) ==
  IF Len(s) = 0 THEN ""
  ELSE toLowerCaseChar(CharAt(s, 1)) \o toLowerCase(SubSeq(s, 2, Len(s)))

RECURSIVE trimStart(_)
trimStart(s) ==
  IF Len(s) > 0 /\ CharAt(s, 1) = " " THEN trimStart(SubSeq(s, 2, Len(s))) ELSE s

RECURSIVE trimEnd(_)
trimEnd(s) ==
  IF Len(s) > 0 /\ CharAt(s, Len(s)) = " " THEN trimEnd(SubSeq(s, 1, Len(s) - 1)) ELSE s

trim(s) == trimEnd(trimStart(s))

includes(s, kw) ==
  \E i \in 1..(Len(s) - Len(kw) + 1) : SubSeq(s, i, i + Len(kw) - 1) = kw

(***************************************************************************)
(* Arrays.                                                                 *)
(***************************************************************************)
Range(a) == {a[i] : i \in 1..Len(a)}

arrayIncludes(a, x) == x \in Range(a)

\* [...new Set(a)]: the first occurrence of every element, in order
RECURSIVE newSet(_)
newSet(a) ==
  IF Len(a) = 0 THEN <<>>
  ELSE LET front == newSet(SubSeq(a, 1, Len(a) - 1))
           last == a[Len(a)]
       IN IF arrayIncludes(front, last) THEN front ELSE Append(front, last)

NoDuplicates(a) == \A i, j \in 1..Len(a) : a[i] = a[j] => i = j

Min(a, b) == IF a <= b THEN a ELSE b

(***************************************************************************)
(* The topic table of app.jsx.                                             *)
(***************************************************************************)
aiTopics == <<
  [name |-> "Machine Learning Basics",     keywords |-> <<"machine learning", "ml", "training", "model">>],
  [name |-> "Neural Networks",             keywords |-> <<"neural", "network", "deep learning", "neurons">>],
  [name |-> "Natural Language Processing", keywords |-> <<"nlp", "language", "text", "chatbot">>],
  [name |-> "Computer Vision",             keywords |-> <<"vision", "image", "recognition", "detection">>],
  [name |-> "AI Ethics",                   keywords |-> <<"ethics", "bias", "fairness", "responsible">>],
  [name |-> "Generative AI",               keywords |-> <<"generative", "gpt", "llm", "generate">>] >>

TopicNames == {aiTopics[i].name : i \in 1..Len(aiTopics)}
MachineLearning == "Machine Learning Basics"
NeuralNetworks == "Neural Networks"

null == "null"

topicMatches(topic, lowerMsg) ==
  \E k \in 1..Len(topic.keywords) : includes(lowerMsg, topic.keywords[k])

\* (mutant) the message is matched as typed, not lower-cased
detectTopicCaseSensitive(userMessage) ==
  LET hits == {i \in 1..Len(aiTopics) : topicMatches(aiTopics[i], userMessage)}
  IN IF hits = {} THEN null
     ELSE aiTopics[CHOOSE i \in hits : \A j \in hits : i <= j].name

\* the detection loop of generateResponse: the first topic of the table, in
\* table order, one of whose keywords occurs in the lower-cased message
detectTopic(userMessage) ==
  LET lowerMsg == toLowerCase(userMessage)
      hits == {i \in 1..Len(aiTopics) : topicMatches(aiTopics[i], lowerMsg)}
  IN IF hits = {} THEN null
     ELSE aiTopics[CHOOSE i \in hits : \A j \in hits : i <= j].name

ProgressIncrement == 15
ProgressMax == 100


\* the fixed replies of generateResponse (app.jsx), named by their subject
ReplyMachineLearning == "Machine Learning is a subset of AI ..."
ReplyNeuralNetworks == "Neural Networks are inspired by the human brain! ..."
ReplyNLP == "Natural Language Processing (NLP) helps computers understand human language! ..."
ReplyComputerVision == "Computer Vision teaches computers to 'see' and understand images! ..."
ReplyEthics == "AI Ethics is crucial! ..."
ReplyGenerativeAI == "Generative AI creates new content ..."
ReplyGettingStarted == "Great! Let's start your AI journey. ..."
ReplyGeneric == "That's a great question! AI is a vast and exciting field. ..."

\* the reply selection of generateResponse, after the simulated delay
selectReply(userMessage) ==
  LET lowerMsg == toLowerCase(userMessage) IN
  IF includes(lowerMsg, "machine learning") \/ includes(lowerMsg, "ml")
    THEN ReplyMachineLearning
  ELSE IF includes(lowerMsg, "neural") \/ includes(lowerMsg, "deep learning")
    THEN ReplyNeuralNetworks
  ELSE IF includes(lowerMsg, "nlp") \/ includes(lowerMsg, "language")
    THEN ReplyNLP
  ELSE IF includes(lowerMsg, "vision") \/ includes(lowerMsg, "image")
    THEN ReplyComputerVision
  ELSE IF includes(lowerMsg, "ethics") \/ includes(lowerMsg, "bias")
    THEN ReplyEthics
  ELSE IF includes(lowerMsg, "generative") \/ includes(lowerMsg, "gpt") \/ includes(lowerMsg, "llm")
    THEN ReplyGenerativeAI
  ELSE IF includes(lowerMsg, "start") \/ includes(lowerMsg, "begin") \/ includes(lowerMsg, "learn")
    THEN ReplyGettingStarted
  ELSE ReplyGeneric

Greeting == "Hello! I'm your AI Learning Assistant. ..."
FallbackReply == "I'm having trouble connecting right now. Please try again in a moment."

quickPrompts == {"What is Machine Learning?", "Explain Neural Networks",
                 "How does NLP work?", "Tell me about AI Ethics"}

\* what the learner can put in the input box: a quick prompt and typed text
TwoTopicMessage == "Tell me about neural networks and machine learning"
TypedTexts == {"", "  ", " hello ", TwoTopicMessage}
InputTexts == {"What is Machine Learning?"} \cup TypedTexts

\* app.jsx reads the text to detect the topic and to select the reply: there
\* the learner also types the same question in another letter case, and
\* questions built from the other keywords of the table
JsxTexts ==
  InputTexts \cup quickPrompts
    \cup {"What is machine learning?", "What is computer vision?", "What is generative AI?",
          "What is model training?", "What is a language model?"}

\* the texts of the input box in the mounted component
textsOf(component) ==
  IF component = "jsx" THEN JsxTexts ELSE IF component = "tsx" THEN InputTexts ELSE {""}

\* detection and reply selection are looked up per text of the model
detectedTopicOf == [t \in {trim(x) : x \in JsxTexts} |-> detectTopic(t)]
replyOf == [t \in {trim(x) : x \in JsxTexts} |-> selectReply(t)]
trimOf == [t \in JsxTexts |-> trim(t)]
lowerOf == [t \in {trim(x) : x \in JsxTexts} |-> toLowerCase(t)]

(***************************************************************************)
(* State.                                                                  *)
(***************************************************************************)
VARIABLES
  app,             \* "jsx" or "tsx": the component that is mounted
  useWebSocket,    \* process.env.REACT_APP_USE_WEBSOCKET === 'true'
  messages,        \* useState: the conversation, a sequence of [role, content]
  input,           \* useState: the text of the input box
  isLoading,       \* useState: a reply is pending
  learnerProfile,  \* useState: [name, level, progress, topics]
  sessionData,     \* useState: [questionsAsked, topicsExplored]
  calls,           \* the suspended calls of handleSend: [state, userMessage, data]
  profileFetch,    \* the suspended fetchProfile: [state, data]
  wsQueue,         \* WebSocket events sent by the backend, not yet delivered
  backendProfile,  \* the learner's profile in the backend's profile store
  overrides,       \* number of teacher overrides so far
  turn,            \* history: the last accepted turn, [outcome, the state it started from]
  rejected,        \* history: a non-blank message was refused since the last accepted one
  loop,            \* engine: the orchestration loop of the learner, [state, text, ...]
  sessionStore,    \* engine: the learner's entry of the session store
  profileStore,    \* engine: the learner's entry of the profile store
  learningGraph,   \* engine: the learner's timeline, a sequence of day entries
  today,           \* engine: the calendar day, as a day number
  localStorage,    \* the browser's localStorage entry 'studentId', null when absent
  studentId,       \* useState of App.tsx: the learner id of this load of the page
  now,             \* Date.now() at the load of the page, counted in loads
  askedBefore      \* history: the messages accepted in the earlier loads of the page

vars == <<app, useWebSocket, messages, input, isLoading, learnerProfile, sessionData,
          calls, profileFetch, wsQueue, backendProfile, overrides, turn, rejected,
          loop, sessionStore, profileStore, learningGraph, today,
          localStorage, studentId, now, askedBefore>>

browserVars == <<localStorage, studentId, now, askedBefore>>
clientVars == <<messages, input, isLoading, learnerProfile, sessionData>>
engineVars == <<loop, sessionStore, profileStore, learningGraph, today>>
backendVars == <<wsQueue, backendProfile, overrides, engineVars>>
frontVars == <<useWebSocket, clientVars, calls, profileFetch, wsQueue, backendProfile,
               overrides, turn, rejected>>

\* a sequence without its i-th element
RemoveAt(q, i) == SubSeq(q, 1, i - 1) \o SubSeq(q, i + 1, Len(q))
NoTurn == [outcome |-> "none"]

\* the values of the engine's state before the first message
IdleLoop(served) ==
  [state |-> "Idle", text |-> "", detected |-> {}, requested |-> {}, results |-> {},
   reply |-> "", served |-> served, loaded |-> <<>>]

AbsentSession ==
  [present |-> FALSE, turns |-> <<>>, questionsAsked |-> 0, topicsExplored |-> {}, idle |-> 0]

\* the id the initialiser builds: `student_${Date.now()}`
generatedId(t) == "student_" \o ToString(t)

\* (mutant) a new id at every load, whatever localStorage holds
initialStudentIdIgnoresSaved(saved, t) == generatedId(t)

\* the initialiser of the studentId state: saved || `student_${Date.now()}`
initialStudentId(saved, t) == IF saved \in {null, ""} THEN generatedId(t) ELSE saved

\* the client state of a page that was just loaded
FirstMessages == << [role |-> "assistant", content |-> Greeting] >>
FirstProfile == [name |-> "Student", level |-> "Beginner", progress |-> 0, topics |-> <<>>]
FirstSession == [questionsAsked |-> 0, topicsExplored |-> <<>>]

\* fetchProfile up to its await: GET /api/student/${studentId}/profile
fetchProfileSent(id) == [state |-> "sent", student_id |-> id, data |-> <<>>]

Init ==
  /\ app \in {"jsx", "tsx", "engine"}
  /\ useWebSocket \in (IF app = "tsx" THEN BOOLEAN ELSE {FALSE})
  /\ messages = FirstMessages
  /\ input = ""
  /\ isLoading = FALSE
  /\ learnerProfile = FirstProfile
  /\ sessionData = FirstSession
  /\ calls = <<>>
     \* the first load of App.tsx in this browser: localStorage is empty when
     \* the initialiser runs, and the mount effect has stored the id and
     \* called fetchProfile
  /\ now = 1
  /\ askedBefore = 0
  /\ studentId = (IF app = "tsx" THEN initialStudentId(null, now) ELSE null)
  /\ localStorage = studentId
  /\ profileFetch = (IF app = "tsx" THEN fetchProfileSent(studentId)
                                   ELSE [state |-> "none", data |-> <<>>])
  /\ wsQueue = <<>>
  /\ backendProfile = [level |-> "Beginner", progress |-> 0, topics |-> {}]
  /\ overrides = 0
  /\ turn = NoTurn
  /\ rejected = FALSE
  /\ loop = IdleLoop(0)
  /\ sessionStore = AbsentSession
  /\ profileStore = [level |-> "Beginner", progress |-> 0, topicMastery |-> <<>>]
  /\ learningGraph = <<>>
  /\ today = 1

(***************************************************************************)
(* The input box.                                                          *)
(***************************************************************************)
\* onChange of the text field (disabled while isLoading) and onClick of a
\* quick prompt (never disabled)
setInput(t) ==
  /\ ~isLoading \/ t \in quickPrompts
  /\ t # input
  /\ input' = t
  /\ UNCHANGED <<app, browserVars, useWebSocket, messages, isLoading, learnerProfile, sessionData,
                 calls, profileFetch, backendVars, turn, rejected>>

\* (mutant) the guard without the test of isLoading
sendGuardIgnoresLoading == trimOf[input] # ""

\* the guard of handleSend, in both components
sendGuard == trimOf[input] # "" /\ ~isLoading

\* (mutant) the refused text is cleared from the input box
handleSendRejectedClears ==
  /\ app \in {"jsx", "tsx"}
  /\ ~sendGuard
  /\ rejected' = (rejected \/ trimOf[input] # "")
  /\ input' = ""
  /\ UNCHANGED <<app, browserVars, useWebSocket, messages, isLoading, learnerProfile, sessionData,
                 calls, profileFetch, backendVars, turn>>

\* (mutant) the question is counted before the guard is tested
handleSendRejectedCounts ==
  /\ app \in {"jsx", "tsx"}
  /\ ~sendGuard
  /\ sessionData.questionsAsked < MaxTurns
  /\ rejected' = (rejected \/ trimOf[input] # "")
  /\ sessionData' = [sessionData EXCEPT !.questionsAsked = @ + 1]
  /\ UNCHANGED <<app, browserVars, useWebSocket, messages, input, isLoading, learnerProfile,
                 calls, profileFetch, backendVars, turn>>

\* handleSend returns at its first line
handleSendRejected ==
  /\ app \in {"jsx", "tsx"}
  /\ ~sendGuard
  /\ rejected' = (rejected \/ trimOf[input] # "")
  /\ UNCHANGED <<app, browserVars, useWebSocket, clientVars, calls, profileFetch, backendVars, turn>>

\* the state a turn starts from, kept to state properties of whole turns
turnOpened(userMessage) ==
  [outcome |-> "pending", userMessage |-> userMessage, nMessages |-> Len(messages),
   progress |-> learnerProfile.progress, questionsAsked |-> sessionData.questionsAsked,
   topicsExplored |-> sessionData.topicsExplored]

(***************************************************************************)
(* app.jsx                                                                 *)
(***************************************************************************)
\* the conversations the model follows: any texts for MaxTurns messages, and
\* the one plain message repeated for MaxChat messages
PlainMessage == "hello"

plainSoFar ==
  \A k \in 1..Len(messages) : messages[k].role = "user" => messages[k].content = PlainMessage

\* ... and the conversation that asks about the six topics in table order
Tour == <<"What is Machine Learning?", "Explain Neural Networks", "How does NLP work?",
          "What is computer vision?", "Tell me about AI Ethics", "What is generative AI?">>

isUser(m) == m.role = "user"
userMessages == SelectSeq(messages, isUser)

tourSoFar ==
  /\ Len(userMessages) < Len(Tour)
  /\ \A k \in 1..Len(userMessages) : userMessages[k].content = Tour[k]

followed(userMessage) ==
  \/ sessionData.questionsAsked < MaxTurns
  \/ userMessage = PlainMessage /\ plainSoFar /\ sessionData.questionsAsked < MaxChat
  \/ tourSoFar /\ userMessage = Tour[Len(userMessages) + 1]

\* (mutant) the increment subtracted instead of added
creditTopicSubtracts(profile, detectedTopic) ==
  [profile EXCEPT !.progress = Min(ProgressMax, profile.progress - ProgressIncrement),
                  !.topics = newSet(Append(profile.topics, detectedTopic))]

\* (mutant) the update applied twice for one message
creditTopicTwice(profile, detectedTopic) ==
  [profile EXCEPT !.progress = Min(ProgressMax, profile.progress + 2 * ProgressIncrement),
                  !.topics = newSet(Append(profile.topics, detectedTopic))]

\* (mutant) the clamp at half of the scale
creditTopicClampsEarly(profile, detectedTopic) ==
  [profile EXCEPT !.progress = Min(ProgressMax \div 2, profile.progress + ProgressIncrement),
                  !.topics = newSet(Append(profile.topics, detectedTopic))]

\* (mutant) progress is raised and the topic is not recorded in the profile
creditTopicForgetsTopic(profile, detectedTopic) ==
  [profile EXCEPT !.progress = Min(ProgressMax, profile.progress + ProgressIncrement)]

\* generateResponse up to its await: the session and profile updates
creditTopic(profile, detectedTopic) ==
  [profile EXCEPT !.progress = Min(ProgressMax, profile.progress + ProgressIncrement),
                  !.topics = newSet(Append(profile.topics, detectedTopic))]

\* (mutant) the topic is appended twice
exploreTopicTwice(session, detectedTopic) ==
  [session EXCEPT !.topicsExplored = session.topicsExplored \o <<detectedTopic, detectedTopic>>]

exploreTopic(session, detectedTopic) ==
  [session EXCEPT !.topicsExplored = Append(session.topicsExplored, detectedTopic)]

\* (mutant) the update is made for every detected topic, explored or not
handleSendJsxAlwaysCredits ==
  /\ app = "jsx"
  /\ sendGuard
  /\ followed(trimOf[input])
  /\ LET userMessage == trimOf[input]
         detectedTopic == detectedTopicOf[userMessage]
         asked == [sessionData EXCEPT !.questionsAsked = sessionData.questionsAsked + 1]
         credit == detectedTopic # null
     IN /\ messages' = Append(messages, [role |-> "user", content |-> userMessage])
        /\ input' = ""
        /\ isLoading' = TRUE
        /\ sessionData' = IF credit THEN exploreTopic(asked, detectedTopic) ELSE asked
        /\ learnerProfile' = IF credit THEN creditTopic(learnerProfile, detectedTopic)
                                       ELSE learnerProfile
        /\ calls' = Append(calls, [state |-> "timer", userMessage |-> userMessage, data |-> <<>>])
        /\ turn' = turnOpened(userMessage)
  /\ rejected' = FALSE
  /\ UNCHANGED <<app, browserVars, useWebSocket, profileFetch, backendVars>>

\* handleSend of app.jsx up to the await inside generateResponse
handleSendJsx ==
  /\ app = "jsx"
  /\ sendGuard
  /\ followed(trimOf[input])
  /\ LET userMessage == trimOf[input]
         detectedTopic == detectedTopicOf[userMessage]
         asked == [sessionData EXCEPT !.questionsAsked = sessionData.questionsAsked + 1]
         credit == detectedTopic # null
                   /\ ~arrayIncludes(sessionData.topicsExplored, detectedTopic)
     IN /\ messages' = Append(messages, [role |-> "user", content |-> userMessage])
        /\ input' = ""
        /\ isLoading' = TRUE
        /\ sessionData' = IF credit THEN exploreTopic(asked, detectedTopic) ELSE asked
        /\ learnerProfile' = IF credit THEN creditTopic(learnerProfile, detectedTopic)
                                       ELSE learnerProfile
        /\ calls' = Append(calls, [state |-> "timer", userMessage |-> userMessage, data |-> <<>>])
        /\ turn' = turnOpened(userMessage)
  /\ rejected' = FALSE
  /\ UNCHANGED <<app, browserVars, useWebSocket, profileFetch, backendVars>>

\* the timer of generateResponse fires: the reply is selected and handleSend
\* appends it and clears isLoading
generateResponseReturns(i) ==
  /\ app = "jsx"
  /\ calls[i].state = "timer"
  /\ messages' = Append(messages, [role |-> "assistant", content |-> replyOf[calls[i].userMessage]])
  /\ isLoading' = FALSE
  /\ calls' = RemoveAt(calls, i)
  /\ turn' = [turn EXCEPT !.outcome = "committed"]
  /\ UNCHANGED <<app, browserVars, useWebSocket, input, learnerProfile, sessionData, profileFetch,
                 backendVars, rejected>>

(***************************************************************************)
(* The backend, as the specification describes its turn processing.        *)
(***************************************************************************)
BackendReply == "(reply of the reasoning backend)"

\* detect(text): every topic of the table with a keyword in the message
backendDetect(text) ==
  {aiTopics[i].name : i \in {j \in 1..Len(aiTopics) : topicMatches(aiTopics[j], toLowerCase(text))}}

backendDetectOf == [t \in {trim(x) : x \in JsxTexts} |-> backendDetect(t)]

\* a set of topics as the array of a response, in table order
RECURSIVE topicArrayFrom(_, _)
topicArrayFrom(S, i) ==
  IF i > Len(aiTopics) THEN <<>>
  ELSE (IF aiTopics[i].name \in S THEN <<aiTopics[i].name>> ELSE <<>>) \o topicArrayFrom(S, i + 1)

topicArray(S) == topicArrayFrom(S, 1)

\* the Committing step: newly seen topics are recorded, progress grows by
\* the fixed increment once per turn, clamped
backendCommit(profile, detected) ==
  [profile EXCEPT !.topics = profile.topics \cup detected,
                  !.progress = IF detected \subseteq profile.topics
                                 THEN profile.progress
                                 ELSE Min(ProgressMax, profile.progress + ProgressIncrement)]

progressEvent(profile) ==
  [type |-> "progress",
   data |-> [progress |-> profile.progress, level |-> profile.level, topics |-> topicArray(profile.topics)]]

\* the backend pushes the profile on the socket when the client has one open
pushed(profile) == IF useWebSocket THEN Append(wsQueue, progressEvent(profile)) ELSE wsQueue

\* POST /api/message is answered with a reply: the turn is committed
backendMessageOk(i) ==
  /\ calls[i].state = "sent"
  /\ useWebSocket => Len(wsQueue) < MaxPush
  /\ LET detected == backendDetectOf[calls[i].userMessage]
         profile == backendCommit(backendProfile, detected)
     IN /\ backendProfile' = profile
        /\ wsQueue' = pushed(profile)
        /\ calls' = [calls EXCEPT ![i].state = "ok",
                                  ![i].data = [message |-> BackendReply,
                                               student_level |-> profile.level,
                                               progress |-> profile.progress,
                                               topics_detected |-> topicArray(detected)]]
  /\ UNCHANGED <<app, browserVars, useWebSocket, clientVars, profileFetch, overrides, turn, rejected,
                 engineVars>>

\* GET /api/student/{id}/profile
backendProfileOk ==
  /\ profileFetch.state = "sent"
  /\ profileFetch' = [state |-> "ok",
                      data |-> [level |-> backendProfile.level,
                                progress |-> backendProfile.progress,
                                topics |-> topicArray(backendProfile.topics)]]
  /\ UNCHANGED <<app, browserVars, useWebSocket, clientVars, calls, backendVars, turn, rejected>>

\* the teacher-override path: a direct profile write
OverrideProgress == {0, 95}

teacherOverride(p) ==
  /\ app = "tsx"
  /\ overrides < MaxOverrides
  /\ useWebSocket => Len(wsQueue) < MaxPush
  /\ p # backendProfile.progress
  /\ overrides' = overrides + 1
  /\ backendProfile' = [backendProfile EXCEPT !.progress = p]
  /\ wsQueue' = pushed(backendProfile')
  /\ UNCHANGED <<app, browserVars, useWebSocket, clientVars, calls, profileFetch, turn, rejected,
                 engineVars>>

(***************************************************************************)
(* App.tsx                                                                 *)
(***************************************************************************)
\* (mutant) questionsAsked is not counted when the message is accepted
handleSendTsxSkipsCounter ==
  /\ app = "tsx"
  /\ sendGuard
  /\ askedBefore + sessionData.questionsAsked < MaxTurns
  /\ LET userMessage == trimOf[input]
     IN /\ messages' = Append(messages, [role |-> "user", content |-> userMessage])
        /\ input' = ""
        /\ isLoading' = TRUE
        /\ calls' = Append(calls, [state |-> "sent", student_id |-> studentId,
                                   userMessage |-> userMessage, data |-> <<>>])
        /\ turn' = turnOpened(userMessage)
  /\ rejected' = FALSE
  /\ UNCHANGED <<app, browserVars, useWebSocket, learnerProfile, sessionData, profileFetch, backendVars>>

\* handleSend of App.tsx up to the await of fetch
handleSendTsx ==
  /\ app = "tsx"
  /\ sendGuard
  /\ askedBefore + sessionData.questionsAsked < MaxTurns
  /\ LET userMessage == trimOf[input]
     IN /\ messages' = Append(messages, [role |-> "user", content |-> userMessage])
        /\ input' = ""
        /\ isLoading' = TRUE
        /\ sessionData' = [sessionData EXCEPT !.questionsAsked = sessionData.questionsAsked + 1]
        /\ calls' = Append(calls, [state |-> "sent", student_id |-> studentId,
                                   userMessage |-> userMessage, data |-> <<>>])
        /\ turn' = turnOpened(userMessage)
  /\ rejected' = FALSE
  /\ UNCHANGED <<app, browserVars, useWebSocket, learnerProfile, profileFetch, backendVars>>

\* handleServerResponse: the three state updates
serverMessages(prev, data) ==
  Append(prev, [role |-> "assistant", content |-> data.message, topics |-> data.topics_detected])

\* (mutant) the progress of the response added to the previous progress
serverProfileAccumulates(prev, data) ==
  [prev EXCEPT !.level = data.student_level,
               !.progress = prev.progress + data.progress,
               !.topics = newSet(prev.topics \o data.topics_detected)]

serverProfile(prev, data) ==
  [prev EXCEPT !.level = data.student_level,
               !.progress = data.progress,
               !.topics = newSet(prev.topics \o data.topics_detected)]

\* (mutant) topicsExplored replaced by the topics of the response
serverSessionOverwrites(prev, data) ==
  IF Len(data.topics_detected) > 0
    THEN [prev EXCEPT !.topicsExplored = data.topics_detected]
    ELSE prev

serverSession(prev, data) ==
  IF Len(data.topics_detected) > 0
    THEN [prev EXCEPT !.topicsExplored = newSet(prev.topicsExplored \o data.topics_detected)]
    ELSE prev

\* (mutant) handleServerResponse stops after the profile update
handleSendOkPartial(i) ==
  /\ app = "tsx"
  /\ calls[i].state = "ok"
  /\ messages' = serverMessages(messages, calls[i].data)
  /\ learnerProfile' = serverProfile(learnerProfile, calls[i].data)
  /\ isLoading' = FALSE
  /\ calls' = RemoveAt(calls, i)
  /\ turn' = [turn EXCEPT !.outcome = "committed"]
  /\ UNCHANGED <<app, browserVars, useWebSocket, input, sessionData, profileFetch, backendVars, rejected>>

\* response.ok: handleServerResponse(data), then the finally block
handleSendOk(i) ==
  /\ app = "tsx"
  /\ calls[i].state = "ok"
  /\ messages' = serverMessages(messages, calls[i].data)
  /\ learnerProfile' = serverProfile(learnerProfile, calls[i].data)
  /\ sessionData' = serverSession(sessionData, calls[i].data)
  /\ isLoading' = FALSE
  /\ calls' = RemoveAt(calls, i)
  /\ turn' = [turn EXCEPT !.outcome = "committed"]
  /\ UNCHANGED <<app, browserVars, useWebSocket, input, profileFetch, backendVars, rejected>>

\* (mutant) the catch block only logs the error
handleSendCatchSilent(i) ==
  /\ app = "tsx"
  /\ calls[i].state = "sent"
  /\ isLoading' = FALSE
  /\ calls' = RemoveAt(calls, i)
  /\ turn' = [turn EXCEPT !.outcome = "errored"]
  /\ UNCHANGED <<app, browserVars, useWebSocket, messages, input, learnerProfile, sessionData,
                 profileFetch, backendVars, rejected>>

\* (mutant) the catch block takes the question back
handleSendCatchUncounts(i) ==
  /\ app = "tsx"
  /\ calls[i].state = "sent"
  /\ messages' = Append(messages, [role |-> "assistant", content |-> FallbackReply])
  /\ sessionData' = [sessionData EXCEPT !.questionsAsked = @ - 1]
  /\ isLoading' = FALSE
  /\ calls' = RemoveAt(calls, i)
  /\ turn' = [turn EXCEPT !.outcome = "errored"]
  /\ UNCHANGED <<app, browserVars, useWebSocket, input, learnerProfile, profileFetch, backendVars, rejected>>

\* (mutant) no finally block: isLoading is left set when the request fails
handleSendCatchKeepsLoading(i) ==
  /\ app = "tsx"
  /\ calls[i].state = "sent"
  /\ messages' = Append(messages, [role |-> "assistant", content |-> FallbackReply])
  /\ calls' = RemoveAt(calls, i)
  /\ turn' = [turn EXCEPT !.outcome = "errored"]
  /\ UNCHANGED <<app, browserVars, useWebSocket, input, isLoading, learnerProfile, sessionData,
                 profileFetch, backendVars, rejected>>

\* (mutant) the catch block shows the error and resets the profile
handleSendCatchLeaks(i) ==
  /\ app = "tsx"
  /\ calls[i].state = "sent"
  /\ messages' = Append(messages, [role |-> "assistant", content |-> "Failed to get response"])
  /\ learnerProfile' = [learnerProfile EXCEPT !.progress = 0, !.topics = <<>>]
  /\ isLoading' = FALSE
  /\ calls' = RemoveAt(calls, i)
  /\ turn' = [turn EXCEPT !.outcome = "errored"]
  /\ UNCHANGED <<app, browserVars, useWebSocket, input, sessionData, profileFetch, backendVars, rejected>>

\* fetch rejects (network error) or the response is not OK (the backend's
\* Errored path, which leaves the stored profile alone): the catch block, then
\* the finally block
handleSendCatch(i) ==
  /\ app = "tsx"
  /\ calls[i].state = "sent"
  /\ messages' = Append(messages, [role |-> "assistant", content |-> FallbackReply])
  /\ isLoading' = FALSE
  /\ calls' = RemoveAt(calls, i)
  /\ turn' = [turn EXCEPT !.outcome = "errored"]
  /\ UNCHANGED <<app, browserVars, useWebSocket, input, learnerProfile, sessionData, profileFetch,
                 backendVars, rejected>>

\* fetchProfile after its await
fetchedProfile(data) ==
  [name |-> "Student", level |-> data.level, progress |-> data.progress, topics |-> data.topics]

fetchProfileOk ==
  /\ profileFetch.state = "ok"
  /\ learnerProfile' = fetchedProfile(profileFetch.data)
  /\ profileFetch' = [state |-> "done", data |-> <<>>]
  /\ UNCHANGED <<app, browserVars, useWebSocket, messages, input, isLoading, sessionData, calls,
                 backendVars, turn, rejected>>

\* fetch rejects or the response is not OK: the error is logged, no state changes
fetchProfileCatch ==
  /\ profileFetch.state = "sent"
  /\ profileFetch' = [state |-> "done", data |-> <<>>]
  /\ UNCHANGED <<app, browserVars, useWebSocket, clientVars, calls, backendVars, turn, rejected>>

\* updateProfile: a || b keeps b when a is falsy (0, the empty string)
updateProfile(prev, data) ==
  [prev EXCEPT !.level = IF data.level = "" THEN prev.level ELSE data.level,
               !.progress = IF data.progress = 0 THEN prev.progress ELSE data.progress,
               !.topics = data.topics]

\* ws.onmessage with an event of type 'progress'
wsOnMessage ==
  /\ Len(wsQueue) > 0
  /\ Head(wsQueue).type = "progress"
  /\ learnerProfile' = updateProfile(learnerProfile, Head(wsQueue).data)
  /\ wsQueue' = Tail(wsQueue)
  /\ UNCHANGED <<app, browserVars, useWebSocket, messages, input, isLoading, sessionData, calls,
                 profileFetch, backendProfile, overrides, turn, rejected, engineVars>>

\* the learner reloads the page of App.tsx: the responses and events on their
\* way to the old page are dropped, the state starts over, the initialiser
\* reads localStorage and the mount effect stores the id and calls
\* fetchProfile.  A page is reloaded once the learner has asked something in
\* it, which bounds the loads of a behaviour by MaxTurns.
reload ==
  /\ app = "tsx"
  /\ sessionData.questionsAsked > 0
  /\ now' = now + 1
  /\ askedBefore' = askedBefore + sessionData.questionsAsked
  /\ studentId' = initialStudentId(localStorage, now')
  /\ localStorage' = studentId'
  /\ messages' = FirstMessages
  /\ input' = ""
  /\ isLoading' = FALSE
  /\ learnerProfile' = FirstProfile
  /\ sessionData' = FirstSession
  /\ calls' = <<>>
  /\ profileFetch' = fetchProfileSent(studentId')
  /\ wsQueue' = <<>>
  /\ turn' = NoTurn
  /\ rejected' = FALSE
  /\ UNCHANGED <<app, useWebSocket, backendProfile, overrides, engineVars>>

(***************************************************************************)
(* The orchestration engine (app = "engine"): the loop of the              *)
(* specification, section 4.4, with the stores, the tool selector and the  *)
(* learning graph aggregator it drives.                                    *)
(***************************************************************************)
\* the memory system of the architecture document
Window == 50           \* turns kept per session
TTL == 60              \* minutes of inactivity after which a session is absent

IdleCap == TTL + 1     \* idle time is counted up to just past the TTL
IdleStep == TTL \div 2  \* the minutes that pass in one step of the clock

EngineTexts == {"What is machine learning?", "hello", "What is the latest in NLP?"}

engineDetectOf == [t \in EngineTexts |-> backendDetect(t)]

\* Tool Selector, section 4.2
recencyCues == <<"latest", "recent", "current">>

hasRecencyCue(text) ==
  \E k \in 1..Len(recencyCues) : includes(toLowerCase(text), recencyCues[k])

recencyOf == [t \in EngineTexts |-> hasRecencyCue(t)]

MasteryMax == 100      \* mastery 1, in hundredths
MasteryLow == 50       \* below it a recorded mastery counts as low
MasteryGains == {0, 50}

lowMastery(topicMastery, topic) ==
  topic \notin DOMAIN topicMastery \/ topicMastery[topic] < MasteryLow

select(text, detectedTopics, topicMastery) ==
  {"analytics-record"}
    \cup (IF recencyOf[text] THEN {"web-lookup"} ELSE {})
    \cup (IF \E t \in detectedTopics : lowMastery(topicMastery, t)
            THEN {"knowledge-lookup"} ELSE {})

\* Session Store: a session created on the first turn after absence or expiry
FreshSession ==
  [present |-> TRUE, turns |-> <<>>, questionsAsked |-> 0, topicsExplored |-> {}, idle |-> 0]

\* (mutant) an expired session is loaded as it is
loadSessionIgnoresTTL(store) ==
  IF ~store.present THEN FreshSession ELSE store

loadSession(store) ==
  IF ~store.present \/ store.idle > TTL THEN FreshSession ELSE store

\* a turn appended to the sliding window: the oldest is evicted first
appendTurn(turns, t) ==
  LET all == Append(turns, t) IN IF Len(all) > Window THEN Tail(all) ELSE all

commitSession(s, text, reply, detected) ==
  [s EXCEPT !.turns = appendTurn(appendTurn(@, [role |-> "learner", text |-> text]),
                                 [role |-> "agent", text |-> reply]),
            !.questionsAsked = @ + 1,
            !.topicsExplored = @ \cup detected,
            !.idle = 0]

\* Profile Store: a newly seen topic enters topicMastery at 0 and progress
\* grows by the increment once per turn; a known topic is refined
commitProfile(p, detected, gain) ==
  LET known == DOMAIN p.topicMastery
      newTopics == detected \ known
  IN [p EXCEPT !.topicMastery =
                  [t \in known \cup detected |->
                     IF t \in newTopics THEN 0
                     ELSE IF t \in detected THEN Min(MasteryMax, p.topicMastery[t] + gain)
                     ELSE p.topicMastery[t]],
               !.progress = IF newTopics = {} THEN @
                            ELSE Min(ProgressMax, @ + ProgressIncrement)]

\* (mutant) every call appends an entry
recordAppends(graph, date, topics, interactionDelta, progressSnapshot) ==
  Append(graph, [date |-> date, topicsTouched |-> topics,
                 interactionCount |-> interactionDelta, progressSnapshot |-> progressSnapshot])

\* Learning Graph Aggregator, section 4.5: the day's entry is upserted
record(graph, date, topics, interactionDelta, progressSnapshot) ==
  IF \E i \in 1..Len(graph) : graph[i].date = date
    THEN LET i == CHOOSE j \in 1..Len(graph) : graph[j].date = date
         IN [graph EXCEPT ![i] = [date |-> date,
                                  topicsTouched |-> @.topicsTouched \cup topics,
                                  interactionCount |-> @.interactionCount + interactionDelta,
                                  progressSnapshot |-> progressSnapshot]]
    ELSE Append(graph, [date |-> date, topicsTouched |-> topics,
                        interactionCount |-> interactionDelta,
                        progressSnapshot |-> progressSnapshot])

\* 1. Idle -> Assembling: the session and the profile are loaded, the topics
\* detected
engineReceive(text) ==
  /\ app = "engine"
  /\ loop.state = "Idle"
  /\ loop.served < MaxEngineTurns
  /\ sessionStore' = loadSession(sessionStore)
  /\ loop' = [loop EXCEPT !.state = "Assembling", !.text = text,
                          !.detected = engineDetectOf[text],
                          !.served = @ + 1,
                          !.loaded = [session |-> sessionStore', profile |-> profileStore]]
  /\ UNCHANGED <<app, browserVars, frontVars, profileStore, learningGraph, today>>

\* 2. Assembling -> ToolDispatch: the tools are selected and dispatched
engineDispatch ==
  /\ loop.state = "Assembling"
  /\ loop' = [loop EXCEPT !.state = "ToolDispatch",
                          !.requested = select(loop.text, loop.detected,
                                               profileStore.topicMastery)]
  /\ UNCHANGED <<app, browserVars, frontVars, sessionStore, profileStore, learningGraph, today>>

\* (mutant) a turn all of whose tools failed is moved to Errored
engineJoinFatal(results) ==
  /\ loop.state = "ToolDispatch"
  /\ results \subseteq loop.requested
  /\ loop' = [loop EXCEPT !.state = IF results = {} THEN "Errored" ELSE "Reasoning",
                          !.results = results,
                          !.reply = IF results = {} THEN FallbackReply ELSE ""]
  /\ UNCHANGED <<app, browserVars, frontVars, sessionStore, profileStore, learningGraph, today>>

\* 3. ToolDispatch -> Reasoning: the tool calls are joined; the ones that
\* failed or timed out are missing from the results
engineJoin(results) ==
  /\ loop.state = "ToolDispatch"
  /\ results \subseteq loop.requested
  /\ loop' = [loop EXCEPT !.state = "Reasoning", !.results = results]
  /\ UNCHANGED <<app, browserVars, frontVars, sessionStore, profileStore, learningGraph, today>>

\* 4. Reasoning -> Committing: the backend replied; session, profile and
\* learning graph are written
engineReply(gain) ==
  /\ loop.state = "Reasoning"
  /\ loop' = [loop EXCEPT !.state = "Committing", !.reply = BackendReply]
  /\ sessionStore' = commitSession(sessionStore, loop.text, BackendReply, loop.detected)
  /\ profileStore' = commitProfile(profileStore, loop.detected, gain)
  /\ learningGraph' = record(learningGraph, today, loop.detected, 1, profileStore'.progress)
  /\ UNCHANGED <<app, browserVars, frontVars, today>>

\* 5. Committing -> Idle: the reply is returned
engineReturn ==
  /\ loop.state = "Committing"
  /\ loop' = IdleLoop(loop.served)
  /\ UNCHANGED <<app, browserVars, frontVars, sessionStore, profileStore, learningGraph, today>>

\* 6. Reasoning -> Errored: the backend call failed after its retries; the
\* fallback reply, no profile write, the learner's message appended to the
\* session when the store takes it
engineFail(appended) ==
  /\ loop.state = "Reasoning"
  /\ loop' = [loop EXCEPT !.state = "Errored", !.reply = FallbackReply]
  /\ sessionStore' =
       IF appended
         THEN [sessionStore EXCEPT
                 !.turns = appendTurn(@, [role |-> "learner", text |-> loop.text]),
                 !.idle = 0]
         ELSE sessionStore
  /\ UNCHANGED <<app, browserVars, frontVars, profileStore, learningGraph, today>>

\* Errored -> Idle: the fallback reply is returned
engineRecover ==
  /\ loop.state = "Errored"
  /\ loop' = IdleLoop(loop.served)
  /\ UNCHANGED <<app, browserVars, frontVars, sessionStore, profileStore, learningGraph, today>>

\* time passes between two messages of the learner
minutesPass ==
  /\ app = "engine"
  /\ loop.state = "Idle"
  /\ sessionStore.present
  /\ sessionStore.idle < IdleCap
  /\ sessionStore' = [sessionStore EXCEPT !.idle = Min(IdleCap, @ + IdleStep)]
  /\ UNCHANGED <<app, browserVars, frontVars, loop, profileStore, learningGraph, today>>

dayPasses ==
  /\ app = "engine"
  /\ loop.state = "Idle"
  /\ today < MaxDays
  /\ today' = today + 1
  /\ sessionStore' = IF sessionStore.present THEN [sessionStore EXCEPT !.idle = IdleCap]
                                             ELSE sessionStore
  /\ UNCHANGED <<app, browserVars, frontVars, loop, profileStore, learningGraph>>

(***************************************************************************)
(* The specification.                                                      *)
(***************************************************************************)
Next ==
  \/ \E t \in textsOf(app) : setInput(t)
  \/ handleSendRejected
  \/ handleSendJsx
  \/ \E i \in 1..Len(calls) : generateResponseReturns(i)
  \/ handleSendTsx
  \/ \E i \in 1..Len(calls) : backendMessageOk(i)
  \/ \E i \in 1..Len(calls) : handleSendOk(i)
  \/ \E i \in 1..Len(calls) : handleSendCatch(i)
  \/ backendProfileOk
  \/ fetchProfileOk
  \/ fetchProfileCatch
  \/ \E p \in OverrideProgress : teacherOverride(p)
  \/ wsOnMessage
  \/ \E text \in EngineTexts : engineReceive(text)
  \/ engineDispatch
  \/ \E results \in SUBSET loop.requested : engineJoin(results)
  \/ \E gain \in MasteryGains : engineReply(gain)
  \/ engineReturn
  \/ \E appended \in BOOLEAN : engineFail(appended)
  \/ engineRecover
  \/ minutesPass
  \/ dayPasses

\* one load of the page (or one run of the engine)
Spec == Init /\ [][Next]_vars

\* the successive loads of the page in one browser
NextAcrossLoads == Next \/ reload
LoadsSpec == Init /\ [][NextAcrossLoads]_vars

\* the timer of app.jsx fires, every HTTP exchange ends, and the continuation
\* of a settled promise runs
Fairness ==
  /\ WF_vars(\E i \in 1..Len(calls) : generateResponseReturns(i))
  /\ WF_vars(\E i \in 1..Len(calls) : backendMessageOk(i) \/ handleSendCatch(i))
  /\ WF_vars(\E i \in 1..Len(calls) : handleSendOk(i))

FairSpec == Spec /\ Fairness

TypeOK ==
  /\ app \in {"jsx", "tsx", "engine"}
  /\ isLoading \in BOOLEAN
  /\ input \in textsOf(app)
  /\ learnerProfile.progress \in Int
  /\ sessionData.questionsAsked \in 0..(IF MaxChat > MaxTurns THEN MaxChat ELSE MaxTurns)
  /\ \A i \in 1..Len(calls) : calls[i].state \in {"timer", "sent", "ok"}
  /\ now \in 1..(MaxTurns + 1)
  /\ askedBefore \in 0..MaxTurns
  /\ studentId \in {null, localStorage}

(***************************************************************************)
(* Properties.                                                             *)
(***************************************************************************)
\* the topic the turn in `turn` detected in app.jsx, and whether it was new
TurnTopic == detectedTopicOf[turn.userMessage]
TurnCredits == TurnTopic # null /\ ~arrayIncludes(turn.topicsExplored, TurnTopic)
TurnAccepts == turn.outcome # "pending" /\ turn'.outcome = "pending"
TurnCommits == turn.outcome = "pending" /\ turn'.outcome = "committed"
TurnErrors == turn.outcome = "pending" /\ turn'.outcome = "errored"

\* C1: turns of one learner are serialized: at most one call of handleSend is
\* suspended between acceptance and commit/error, isLoading is set exactly
\* while one is, and in app.jsx no increment is lost: a turn that credits a
\* new topic leaves progress 15 above the progress it started from, so that
\* two such turns leave it at 30.
C1_Serialized ==
  /\ Len(calls) <= 1
  /\ isLoading <=> Len(calls) = 1
  /\ (app = "jsx" /\ turn.outcome \in {"pending", "committed"} /\ TurnCredits)
       => learnerProfile.progress = Min(ProgressMax, turn.progress + ProgressIncrement)
  /\ (app = "jsx" /\ Len(sessionData.topicsExplored) = 2)
       => learnerProfile.progress = 2 * ProgressIncrement

C1_Witness ==
  /\ app = "jsx"
  /\ turn.outcome = "committed"
  /\ TurnCredits
  /\ sessionData.questionsAsked = 2
  /\ Len(sessionData.topicsExplored) = 2
  /\ learnerProfile.progress = 30

\* C2: without a teacher override, the progress shown when a turn commits is
\* at least the progress shown when the turn was accepted.
C2_Monotonic ==
  [][(TurnCommits /\ overrides' = 0) => learnerProfile'.progress >= turn.progress]_vars

C2_Witness ==
  /\ turn.outcome = "committed"
  /\ overrides = 0
  /\ learnerProfile.progress > turn.progress

\* C3: in app.jsx one turn raises progress by at most 15, by 0 or by 15 and
\* never by 15 per matching topic, also when the message matches several
\* topics of the table.
C3_OneIncrement ==
  (app = "jsx" /\ turn.outcome \in {"pending", "committed"})
    => /\ learnerProfile.progress - turn.progress \in {0, ProgressIncrement}
       /\ learnerProfile.progress - turn.progress <= 15

C3_Witness ==
  /\ app = "jsx"
  /\ turn.outcome = "committed"
  /\ Cardinality(backendDetectOf[turn.userMessage]) >= 2
  /\ learnerProfile.progress = turn.progress + 15

\* C4: a turn of App.tsx whose request fails ends with the fixed fallback
\* reply appended after the learner's message, which stays in the
\* conversation, and neither its acceptance nor its failure changes the
\* profile.
C4_ErrorPath ==
  [][/\ TurnErrors =>
          /\ messages' = Append(messages, [role |-> "assistant", content |-> FallbackReply])
          /\ messages[turn.nMessages + 1] = [role |-> "user", content |-> turn.userMessage]
          /\ learnerProfile' = learnerProfile
          /\ ~isLoading'
     /\ (TurnAccepts /\ app = "tsx") => learnerProfile' = learnerProfile]_vars

C4_Witness ==
  /\ turn.outcome = "errored"
  /\ Len(messages) = turn.nMessages + 2
  /\ messages[Len(messages)].content = FallbackReply
  /\ messages[Len(messages) - 1] = [role |-> "user", content |-> turn.userMessage]

\* C5: the progress shown, and the progress in the backend's profile, are in
\* 0..100 in every reachable state; an increment past 100 gives 100 and the
\* turn commits.
C5_ProgressRange ==
  /\ learnerProfile.progress \in 0..ProgressMax
  /\ backendProfile.progress \in 0..ProgressMax

C5_Witness ==
  /\ turn.outcome = "committed"
  /\ turn.progress + ProgressIncrement > ProgressMax
  /\ learnerProfile.progress = ProgressMax

\* C6: every accepted message is driven back to idle: a suspended call of
\* handleSend eventually ends and leaves isLoading false; a turn ends as
\* committed or errored only from the pending state; and once no call is
\* suspended the in-flight marker is released, so that a non-blank input
\* can be sent again.
C6_BackToIdle ==
  /\ (Len(calls) > 0) ~> (Len(calls) = 0 /\ ~isLoading /\ turn.outcome \in {"committed", "errored"})
  /\ [][turn'.outcome \in {"committed", "errored"} => turn.outcome \in {"pending", turn'.outcome}]_vars
  /\ []((Len(calls) = 0 /\ trimOf[input] # "") => sendGuard)

C6_Witness ==
  /\ turn.outcome = "errored"
  /\ Len(calls) = 0
  /\ ~isLoading
  /\ trimOf[input] # ""
  /\ sessionData.questionsAsked < MaxTurns

\* C7 as stated: a message submitted while a turn is in flight is queued and
\* processed when that turn ends, so that whenever no turn is in flight no
\* submitted message is left unprocessed.
C7_Queued == (Len(calls) = 0) => ~rejected

\* C7 as amended: a non-blank message submitted while a turn is in flight is
\* refused, not queued: the send changes no state of the component (the text
\* stays in the input box), and a message is accepted only when no turn is in
\* flight, that is if the learner sends it again after the turn has ended.
C7_Refused ==
  [][/\ (~rejected /\ rejected') =>
          /\ isLoading
          /\ UNCHANGED <<messages, input, isLoading, learnerProfile, sessionData, calls>>
     /\ (Len(calls') > Len(calls)) =>
          /\ Len(calls) = 0
          /\ ~isLoading
          /\ messages'[Len(messages')].content = trimOf[input]]_vars

C7_Witness ==
  /\ rejected
  /\ Len(calls) = 1
  /\ isLoading
  /\ trimOf[input] # ""

C9_AllOrNothing ==
  turn.outcome # "none" =>
    \/ /\ Len(messages) = turn.nMessages
       /\ sessionData.questionsAsked = turn.questionsAsked
       /\ sessionData.topicsExplored = turn.topicsExplored
    \/ /\ turn.outcome = "committed"
       /\ Len(messages) = turn.nMessages + 2
       /\ sessionData.questionsAsked = turn.questionsAsked + 1

\* the three steps that write the conversation or the session counters
AcceptStep ==
  /\ TurnAccepts
  /\ messages' = Append(messages, [role |-> "user", content |-> turn'.userMessage])
  /\ sessionData'.questionsAsked = sessionData.questionsAsked + 1
  /\ app = "tsx" => /\ sessionData'.topicsExplored = sessionData.topicsExplored
                    /\ learnerProfile' = learnerProfile
  /\ app = "jsx" =>
       LET topic == detectedTopicOf[turn'.userMessage]
           credit == topic # null /\ ~arrayIncludes(sessionData.topicsExplored, topic)
       IN /\ credit => /\ sessionData'.topicsExplored = Append(sessionData.topicsExplored, topic)
                       /\ learnerProfile'.progress # learnerProfile.progress
                       /\ arrayIncludes(learnerProfile'.topics, topic)
          /\ ~credit => /\ sessionData'.topicsExplored = sessionData.topicsExplored
                        /\ learnerProfile' = learnerProfile

CommitStep ==
  /\ TurnCommits
  /\ Len(messages') = Len(messages) + 1
  /\ SubSeq(messages', 1, Len(messages)) = messages
  /\ messages'[Len(messages')].role = "assistant"
  /\ messages'[Len(messages')].content # FallbackReply
  /\ sessionData'.questionsAsked = sessionData.questionsAsked
  /\ app = "jsx" => /\ sessionData' = sessionData
                    /\ learnerProfile' = learnerProfile
  /\ app = "tsx" =>
       LET detected == messages'[Len(messages')].topics
       IN /\ Range(sessionData'.topicsExplored) = Range(sessionData.topicsExplored) \cup Range(detected)
          /\ Range(learnerProfile'.topics) = Range(learnerProfile.topics) \cup Range(detected)

ErrorStep ==
  /\ TurnErrors
  /\ messages' = Append(messages, [role |-> "assistant", content |-> FallbackReply])
  /\ sessionData' = sessionData
  /\ learnerProfile' = learnerProfile

\* C9 as amended: a turn writes in two steps, each of them all-or-nothing:
\* the acceptance (learner's turn and questionsAsked; in app.jsx also
\* topicsExplored, progress and topics) and the completion (the agent's turn;
\* in App.tsx also the profile and topicsExplored), or, when the request
\* fails, the fallback reply alone.  No other step writes the conversation or
\* the session counters; a failed turn keeps what its acceptance wrote.
C9_TwoSteps ==
  [][(<<messages, sessionData>>' # <<messages, sessionData>>)
        => (AcceptStep \/ CommitStep \/ ErrorStep)]_vars

C9_Witness ==
  /\ app = "tsx"
  /\ turn.outcome = "errored"
  /\ Len(messages) = turn.nMessages + 2
  /\ sessionData.questionsAsked = turn.questionsAsked + 1
  /\ sessionData.topicsExplored = turn.topicsExplored

\* the topics the committed turn detected: in app.jsx the topic of the
\* detection loop, in App.tsx the topics_detected of the response
TurnDetected ==
  IF app = "jsx" THEN {TurnTopic} \ {null}
  ELSE Range(messages[turn.nMessages + 2].topics)

\* C10: a committed turn has appended the learner's turn and one agent turn,
\* has raised questionsAsked by one, and has made topicsExplored the union of
\* its previous value and the topics detected in the turn; no step removes a
\* topic from topicsExplored.
C10_TurnEffects ==
  /\ [](turn.outcome = "committed" =>
          /\ Len(messages) = turn.nMessages + 2
          /\ messages[turn.nMessages + 1] = [role |-> "user", content |-> turn.userMessage]
          /\ messages[turn.nMessages + 2].role = "assistant"
          /\ sessionData.questionsAsked = turn.questionsAsked + 1
          /\ Range(sessionData.topicsExplored) = Range(turn.topicsExplored) \cup TurnDetected)
  /\ [][Range(sessionData.topicsExplored) \subseteq Range(sessionData'.topicsExplored)]_vars

C10_Witness ==
  /\ app = "tsx"
  /\ turn.outcome = "committed"
  /\ Len(turn.topicsExplored) > 0
  /\ TurnDetected # {}
  /\ ~(TurnDetected \subseteq Range(turn.topicsExplored))
  /\ Len(sessionData.topicsExplored) > Len(turn.topicsExplored)

\* the topics of the table with a keyword occurring in the lower-cased message
matchingTopics(text) == backendDetectOf[text]

\* C11: in app.jsx, when the first turn has detected only the
\* machine-learning topic (progress 15), the committed second turn with the
\* message matching neural networks and machine learning has brought
\* progress to 30 and has both topics in topicsExplored.
C11_SecondTurnThirty ==
  (/\ app = "jsx"
   /\ turn.outcome = "committed"
   /\ turn.userMessage = TwoTopicMessage
   /\ turn.progress = ProgressIncrement
   /\ turn.topicsExplored = <<MachineLearning>>)
    => /\ learnerProfile.progress = 2 * ProgressIncrement
       /\ Range(sessionData.topicsExplored) = {MachineLearning, NeuralNetworks}

\* C13: in app.jsx, the topics detected for an accepted message, which are
\* the topics the turn may add to topicsExplored, are all the topics of the
\* table with a keyword in the message; none when no keyword occurs.
C13_DetectsAll ==
  (app = "jsx" /\ turn.outcome \in {"pending", "committed"})
    => /\ ({TurnTopic} \ {null}) = matchingTopics(turn.userMessage)
       /\ Range(sessionData.topicsExplored) =
            Range(turn.topicsExplored) \cup matchingTopics(turn.userMessage)

\* C14: in app.jsx, a turn whose detected topic is already in topicsExplored
\* (or that detects no topic) changes neither progress nor the topics, at its
\* acceptance and up to its commit.
C14_NoNewTopic ==
  /\ []((app = "jsx" /\ turn.outcome \in {"pending", "committed"}
           /\ (\/ TurnTopic = null
               \/ arrayIncludes(turn.topicsExplored, TurnTopic)
               \/ matchingTopics(turn.userMessage) \subseteq Range(turn.topicsExplored)))
          => /\ learnerProfile.progress = turn.progress
             /\ sessionData.topicsExplored = turn.topicsExplored)
  /\ [][(app = "jsx" /\ TurnAccepts /\ sessionData'.topicsExplored = sessionData.topicsExplored)
          => learnerProfile' = learnerProfile]_vars

C14_Witness ==
  /\ app = "jsx"
  /\ turn.outcome = "committed"
  /\ TurnTopic # null
  /\ arrayIncludes(turn.topicsExplored, TurnTopic)
  /\ turn.progress = ProgressIncrement
  /\ learnerProfile.progress = ProgressIncrement

\* the learner's messages of the conversation before the turn in `turn`
EarlierMessages ==
  {messages[k].content : k \in {j \in 1..turn.nMessages : messages[j].role = "user"}}

\* C15: detection in app.jsx is a function of the lower-cased message: two
\* texts that differ only in letter case have the same detected topic, and a
\* turn whose message, up to letter case, was sent before in the conversation
\* detects the topic of that earlier turn again and so changes neither
\* progress nor topicsExplored.
C15_CaseInsensitive ==
  (app = "jsx" /\ turn.outcome \in {"pending", "committed"})
    => /\ \A t \in DOMAIN lowerOf :
            lowerOf[t] = lowerOf[turn.userMessage] => detectedTopicOf[t] = TurnTopic
       /\ (\E m \in EarlierMessages : lowerOf[m] = lowerOf[turn.userMessage])
            => /\ learnerProfile.progress = turn.progress
               /\ sessionData.topicsExplored = turn.topicsExplored

C15_Witness ==
  /\ app = "jsx"
  /\ turn.outcome = "committed"
  /\ TurnTopic = MachineLearning
  /\ \E m \in EarlierMessages : m # turn.userMessage /\ lowerOf[m] = lowerOf[turn.userMessage]
  /\ learnerProfile.progress = ProgressIncrement

\* the turns of the session: the conversation after the greeting
SessionTurns == Tail(messages)

\* C16: the session never holds more than Window turns, and a turn appended
\* to a full session takes the place of the oldest one.
C16_Window ==
  /\ Len(SessionTurns) <= Window
  /\ [][(Len(SessionTurns) = Window /\ messages' # messages)
          => SessionTurns' = Append(Tail(SessionTurns), messages'[Len(messages')])]_vars

\* a learner message in flight as an HTTP request: POST /api/message is
\* awaited or has been answered
viaRest(call) == call.state \in {"sent", "ok"}

\* C20: the mode decides the channel of a learner message: with
\* REACT_APP_USE_WEBSOCKET 'true' no message is sent by HTTP POST, with
\* 'false' every message in flight is.
C20_ModeDecidesChannel ==
  app = "tsx" =>
    \A i \in 1..Len(calls) : viaRest(calls[i]) <=> ~useWebSocket

FirstQuestion == "What is machine learning?"
EmptyProfile == [level |-> "Beginner", progress |-> 0, topicMastery |-> <<>>]

\* C12: a first turn with the message "What is machine learning?" (in any
\* letter case) that starts from an empty profile detects the
\* machine-learning topic and sets progress to 15: in app.jsx the topic is
\* recorded in the profile's topics and in topicsExplored; in the engine it
\* enters topicMastery at 0 and today's entry of the learning graph contains
\* it.
C12_FirstTurn ==
  /\ (/\ app = "jsx"
      /\ turn.outcome \in {"pending", "committed"}
      /\ turn.progress = 0
      /\ turn.topicsExplored = <<>>
      /\ lowerOf[turn.userMessage] = lowerOf[FirstQuestion])
       => /\ TurnTopic = MachineLearning
          /\ learnerProfile.progress = ProgressIncrement
          /\ learnerProfile.progress = 15
          /\ learnerProfile.topics = <<MachineLearning>>
          /\ sessionData.topicsExplored = <<MachineLearning>>
  /\ (/\ app = "engine"
      /\ loop.state = "Committing"
      /\ loop.loaded.profile = EmptyProfile
      /\ loop.text = FirstQuestion)
       => /\ loop.detected = {MachineLearning}
          /\ profileStore.progress = 15
          /\ profileStore.topicMastery = (MachineLearning :> 0)
          /\ \E i \in 1..Len(learningGraph) :
                /\ learningGraph[i].date = today
                /\ MachineLearning \in learningGraph[i].topicsTouched

C12_Witness ==
  /\ app = "jsx"
  /\ turn.outcome = "committed"
  /\ turn.userMessage = FirstQuestion
  /\ turn.progress = 0
  /\ learnerProfile.progress = 15
  /\ learnerProfile.topics = <<MachineLearning>>

\* the step Idle -> Assembling of the engine
EngineLoads == app = "engine" /\ loop.state = "Idle" /\ loop'.state = "Assembling"

\* C17: a session idle for more than the TTL is absent at its next access:
\* the turn loads a fresh session (no turns, questionsAsked 0, no topics
\* explored) and commits into it, a session idle for the TTL or less is
\* loaded as it is, and the profile is loaded unchanged either way.
C17_SessionExpiry ==
  /\ [][EngineLoads =>
          /\ (sessionStore.present /\ sessionStore.idle > TTL)
               => /\ loop'.loaded.session.turns = <<>>
                  /\ loop'.loaded.session.questionsAsked = 0
                  /\ loop'.loaded.session.topicsExplored = {}
                  /\ sessionStore' = loop'.loaded.session
          /\ (sessionStore.present /\ sessionStore.idle <= TTL)
               => /\ loop'.loaded.session = sessionStore
                  /\ sessionStore' = sessionStore
          /\ loop'.loaded.profile = profileStore
          /\ profileStore' = profileStore]_vars
  /\ []((app = "engine" /\ loop.state = "Committing" /\ loop.loaded.session.turns = <<>>)
          => /\ sessionStore.questionsAsked = 1
             /\ Len(sessionStore.turns) = 2
             /\ sessionStore.topicsExplored = loop.detected
             /\ profileStore.progress >= loop.loaded.profile.progress
             /\ DOMAIN loop.loaded.profile.topicMastery \subseteq DOMAIN profileStore.topicMastery)

C17_Witness ==
  /\ app = "engine"
  /\ loop.state = "Committing"
  /\ loop.served = 2
  /\ loop.loaded.session.turns = <<>>
  /\ loop.loaded.profile.progress = 15
  /\ sessionStore.questionsAsked = 1
  /\ MachineLearning \in DOMAIN profileStore.topicMastery
  /\ MachineLearning \notin sessionStore.topicsExplored

\* C18: a turn all of whose dispatched tools failed or timed out goes on to
\* the reasoning call and commits like any other turn: the reply is the
\* backend's, the session has the two turns and the profile the detected
\* topics; the loop enters Errored only from the reasoning call.
C18_ToolsDegrade ==
  /\ []((app = "engine" /\ loop.state = "Committing")
          => /\ loop.reply = BackendReply
             /\ sessionStore.questionsAsked = loop.loaded.session.questionsAsked + 1
             /\ Len(sessionStore.turns) = Len(loop.loaded.session.turns) + 2
             /\ loop.detected \subseteq DOMAIN profileStore.topicMastery
             /\ (~(loop.detected \subseteq DOMAIN loop.loaded.profile.topicMastery))
                  => profileStore.progress =
                       Min(ProgressMax, loop.loaded.profile.progress + ProgressIncrement))
  /\ [][(loop.state = "ToolDispatch" /\ loop'.state # "ToolDispatch")
          => loop'.state = "Reasoning"]_vars
  /\ [][(loop.state # "Errored" /\ loop'.state = "Errored")
          => loop.state = "Reasoning"]_vars

C18_Witness ==
  /\ app = "engine"
  /\ loop.state = "Committing"
  /\ Cardinality(loop.requested) >= 2
  /\ loop.results = {}
  /\ loop.reply = BackendReply
  /\ profileStore.progress = 15

\* C19: the learning graph has one entry per day, in the order of the days;
\* a turn recorded on a day that has an entry updates that entry (topics
\* unioned, interactionCount incremented, progressSnapshot overwritten), a
\* turn recorded on a new day appends one, and the entries of earlier days
\* stay as they are.
C19_OneEntryPerDay ==
  /\ [](\A i, j \in 1..Len(learningGraph) :
          i < j => learningGraph[i].date < learningGraph[j].date)
  /\ [][learningGraph' # learningGraph =>
          LET n == Len(learningGraph) IN
          IF n > 0 /\ learningGraph[n].date = today
            THEN /\ Len(learningGraph') = n
                 /\ SubSeq(learningGraph', 1, n - 1) = SubSeq(learningGraph, 1, n - 1)
                 /\ learningGraph'[n].date = today
                 /\ learningGraph'[n].topicsTouched =
                      learningGraph[n].topicsTouched \cup loop.detected
                 /\ learningGraph'[n].interactionCount = learningGraph[n].interactionCount + 1
                 /\ learningGraph'[n].progressSnapshot = profileStore'.progress
            ELSE learningGraph' =
                   Append(learningGraph,
                          [date |-> today, topicsTouched |-> loop.detected,
                           interactionCount |-> 1,
                           progressSnapshot |-> profileStore'.progress])]_vars

C19_Witness ==
  /\ app = "engine"
  /\ Len(learningGraph) = 1
  /\ learningGraph[1].interactionCount = 2
  /\ Cardinality(learningGraph[1].topicsTouched) = 2
  /\ learningGraph[1].progressSnapshot = 30

\* C21: in app.jsx progress is 15 times the number of topics explored in
\* every reachable state, so it is at most 90, and the clamp never cuts an
\* increment: a step changes progress by 0 or by exactly 15.
C21_ProgressCountsTopics ==
  /\ [](app = "jsx" =>
          /\ learnerProfile.progress = ProgressIncrement * Len(sessionData.topicsExplored)
          /\ learnerProfile.progress = 15 * Len(sessionData.topicsExplored)
          /\ learnerProfile.progress <= 90
          /\ learnerProfile.progress <= ProgressIncrement * Len(aiTopics))
  /\ [][app = "jsx" =>
          learnerProfile'.progress - learnerProfile.progress \in {0, ProgressIncrement}]_vars

C21_Witness ==
  /\ app = "jsx"
  /\ Len(sessionData.topicsExplored) = Len(aiTopics)
  /\ learnerProfile.progress = 90
  /\ turn.outcome = "committed"

\* C22: in app.jsx topicsExplored never holds a topic twice and holds the
\* same topics as learnerProfile.topics, in the same order, in every
\* reachable state, also after sends refused while a reply was pending.
C22_TopicsAgree ==
  app = "jsx" =>
    /\ NoDuplicates(sessionData.topicsExplored)
    /\ NoDuplicates(learnerProfile.topics)
    /\ Range(sessionData.topicsExplored) = Range(learnerProfile.topics)
    /\ sessionData.topicsExplored = learnerProfile.topics
    /\ Range(sessionData.topicsExplored) \subseteq TopicNames

C22_Witness ==
  /\ app = "jsx"
  /\ rejected
  /\ isLoading
  /\ sessionData.questionsAsked = 2
  /\ Len(sessionData.topicsExplored) = 1
  /\ learnerProfile.topics = sessionData.topicsExplored
  /\ arrayIncludes(turn.topicsExplored, TurnTopic)

\* the learner's messages, in the order sent
LearnerMessages(ms) == SelectSeq(ms, isUser)

\* C23: a send while a reply is pending or with blank input changes nothing:
\* the step of the refused send leaves the conversation, the input, the
\* counters, the profile, isLoading and the requests in flight as they were,
\* and from a state whose input is blank or whose reply is pending no step
\* issues a request, counts a question or appends a learner message.
C23_RefusedSendNoEffect ==
  [][/\ (~rejected /\ rejected') =>
          UNCHANGED <<messages, input, isLoading, learnerProfile, sessionData, calls,
                      profileFetch, wsQueue, backendProfile>>
     /\ (app \in {"jsx", "tsx"} /\ ~sendGuard) =>
          /\ Len(calls') <= Len(calls)
          /\ \A i \in 1..Len(calls') : calls'[i].userMessage = calls[i].userMessage
          /\ sessionData'.questionsAsked = sessionData.questionsAsked
          /\ LearnerMessages(messages') = LearnerMessages(messages)
          /\ (trimOf[input] = "" /\ ~isLoading) => isLoading' = isLoading]_vars

C23_Witness ==
  /\ app = "tsx"
  /\ rejected
  /\ Len(calls) = 1
  /\ calls[1].state = "sent"
  /\ input \in quickPrompts
  /\ Len(messages) = turn.nMessages + 1
  /\ sessionData.questionsAsked = turn.questionsAsked + 1

\* C24: without WebSocket the conversation alternates after the greeting:
\* assistant and learner messages take turns, the assistant messages are one
\* more than the learner's while isLoading is false and as many while it is
\* true, so every learner message gets exactly one answer, the reply or the
\* fallback.
C24_Alternates ==
  (app \in {"jsx", "tsx"} /\ ~useWebSocket) =>
    LET nUser == Len(LearnerMessages(messages))
        nAssistant == Len(messages) - nUser
    IN /\ ~isLoading => nAssistant = nUser + 1
       /\ isLoading => nAssistant = nUser
       /\ \A k \in 1..Len(messages) :
            messages[k].role = (IF k % 2 = 1 THEN "assistant" ELSE "user")

C24_Witness ==
  /\ app = "tsx"
  /\ ~useWebSocket
  /\ ~isLoading
  /\ turn.outcome = "errored"
  /\ Len(messages) = 5
  /\ messages[3].content = BackendReply
  /\ messages[5].content = FallbackReply

\* C25: questionsAsked is the number of learner messages in the conversation
\* in every reachable state: it grows by one exactly in the step that accepts
\* a message, and no other step, a failure included, changes it.
C25_CountsMessages ==
  /\ [](app \in {"jsx", "tsx"} =>
          sessionData.questionsAsked = Len(LearnerMessages(messages)))
  /\ [][sessionData'.questionsAsked # sessionData.questionsAsked =>
          /\ TurnAccepts
          /\ sessionData'.questionsAsked = sessionData.questionsAsked + 1
          /\ Len(messages') = Len(messages) + 1
          /\ isUser(messages'[Len(messages')])]_vars

C25_Witness ==
  /\ app = "tsx"
  /\ useWebSocket
  /\ turn.outcome = "errored"
  /\ sessionData.questionsAsked = 1
  /\ Len(LearnerMessages(messages)) = 1
  /\ Len(messages) = 3

\* the continuation of fetchProfile applies a response
FetchApplied == profileFetch.state = "ok" /\ profileFetch'.state = "done"

\* C26: the response of the profile fetch issued on mount never overwrites
\* newer data: when it is applied after a message response has updated the
\* profile, and no teacher override happened, the displayed progress does not
\* go down and no displayed topic disappears.
C26_FetchNeverRegresses ==
  [][(FetchApplied /\ turn.outcome = "committed" /\ overrides = 0) =>
        /\ learnerProfile'.progress >= learnerProfile.progress
        /\ Range(learnerProfile.topics) \subseteq Range(learnerProfile'.topics)]_vars

\* ws.onmessage takes the oldest event of the socket
EventDelivered == Len(wsQueue) > 0 /\ wsQueue' = Tail(wsQueue)

\* C27: after a 'progress' event of the WebSocket the displayed progress,
\* level and topics are those the event carries, for every progress in
\* 0..100, 0 included.
C27_ProgressEventApplied ==
  [][EventDelivered =>
        LET data == Head(wsQueue).data
        IN /\ data.progress \in 0..ProgressMax
           /\ learnerProfile'.progress = data.progress
           /\ learnerProfile'.level = data.level
           /\ learnerProfile'.topics = data.topics]_vars


\* the explanation generateResponse holds for each topic of the table
explanationOf ==
  [name \in TopicNames |->
     CASE name = MachineLearning -> ReplyMachineLearning
       [] name = NeuralNetworks -> ReplyNeuralNetworks
       [] name = "Natural Language Processing" -> ReplyNLP
       [] name = "Computer Vision" -> ReplyComputerVision
       [] name = "AI Ethics" -> ReplyEthics
       [] name = "Generative AI" -> ReplyGenerativeAI]

\* C28: in app.jsx, the reply of a turn that credited a topic is the
\* explanation of that topic, never the generic reply nor the explanation of
\* another topic.
C28_CreditedTopicExplained ==
  (app = "jsx" /\ turn.outcome = "committed" /\ TurnCredits)
    => messages[Len(messages)].content = explanationOf[TurnTopic]

\* the student_id of the requests of App.tsx that are under way: the profile
\* fetch and the message requests
RequestIds ==
  {calls[i].student_id : i \in 1..Len(calls)}
    \cup (IF profileFetch.state = "sent" THEN {profileFetch.student_id} ELSE {})

\* C29: the learner id of App.tsx is stable: it is the id generated at the
\* first load, localStorage holds it, every later load reuses it, and the
\* profile fetch and every message request carry it.
C29_StableId ==
  app = "tsx" =>
    /\ localStorage = generatedId(1)
    /\ studentId = localStorage
    /\ RequestIds \subseteq {localStorage}

C29_Witness ==
  /\ app = "tsx"
  /\ now = 2
  /\ profileFetch.state = "sent"
  /\ profileFetch.student_id = generatedId(1)
  /\ Len(calls) = 1
  /\ calls[1].student_id = generatedId(1)
=============================================================================
